---- MODULE Spec2Model ----
(***************************************************************************)
(* HoneyMCP: the session tracker and fingerprint assembler of              *)
(* honeymcp/core/fingerprinter.py and the honeypot() wrapper with its      *)
(* intercepting_call_tool closure, its registered ghost-tool handlers and  *)
(* its direct-call fallback of honeymcp/core/middleware_backup.py.         *)
(***************************************************************************)
EXTENDS Integers, Sequences, FiniteSets, TLC

VARIABLES
    server,     \* the FastMCP server object: its attributes and registered tools
    wrap,       \* what honeypot() captured in its closure (config, saved handler)
    hist,       \* fingerprinter._session_tool_history : dict key -> list of names
    detected,   \* fingerprinter._attacker_detected     : dict key -> True
    uuid,       \* number of uuid4() values drawn so far
    events,     \* the event sink: fingerprints store_event has written
    sent,       \* per session id, the names dispatched through the interceptor
    nCalls,     \* number of calls handled so far
    now,        \* datetime.utcnow(), in whole seconds
    issued,     \* the event ids generated so far, in order of generation
    held,       \* the tool_call_sequence of the fingerprint a caller still holds
    inflight,   \* the calls suspended inside the interceptor, awaiting their target
    cache,      \* the decoy cache: entries, syntheses in progress, callers
    last        \* the observable record of the most recent operation

vars ==
    <<server, wrap, hist, detected, uuid, events, sent, nCalls, now, issued,
      held, inflight, cache, last>>

----------------------------------------------------------------------------
(* Bounds *)

MaxCalls == 3

\* the last second the clock reaches
MaxClock == 1

----------------------------------------------------------------------------
(* Values *)

None == "<None>"
Absent == "<absent>"

Sessions == {"s1", "s2"}

\* A context object is the map of the four attributes the code probes; an
\* attribute the object does not have is Absent.
SessionIdAttrs == <<"session_id", "id", "request_id", "connection_id">>

Ctx(sid, id) ==
    [session_id |-> sid, id |-> id, request_id |-> Absent, connection_id |-> Absent]

\* kwargs.get("context", {}): a call without context gets the empty dict,
\* which has none of the attributes.
NoContext == Ctx(Absent, Absent)

Contexts == {Ctx("s1", Absent), Ctx("s2", Absent), Ctx(Absent, "s1"), NoContext}

\* a context object that also has some of the attributes
\* _extract_client_metadata probes
CtxMeta(sid, user_agent, client_info, headers) ==
    [session_id |-> sid, id |-> Absent, request_id |-> Absent,
     connection_id |-> Absent, user_agent |-> user_agent,
     client_info |-> client_info, headers |-> headers]

\* a user agent, headers that are a dict, headers that are a list with and
\* without client info, and no attribute at all
MetaContexts ==
    {CtxMeta("s1", "curl/8", Absent, Absent),
     CtxMeta("s1", Absent, Absent, "{h: v}"),
     CtxMeta("s2", Absent, "cli", "[h]"),
     CtxMeta("s2", Absent, Absent, "[h]"),
     NoContext}

\* the names callers ask for: a catalog name and a name of the host's own
ToolNames == {"list_cloud_secrets", "read_file"}

\* how the caller passes the arguments dict to
\* intercepting_call_tool(name, *args, arguments=None, **kwargs): args are
\* the positional values after the name, arguments the keyword
CallForm(args, arguments) == [args |-> args, arguments |-> arguments]

\* call_tool(name, arguments={...})
KeywordCall == CallForm(<<>>, "{command: id}")

CallForms ==
    {CallForm(<<>>, None),                  \* call_tool(name)
     CallForm(<<>>, "{command: id}"),       \* call_tool(name, arguments={...})
     CallForm(<<"{command: id}">>, None)}   \* call_tool(name, {...})

\* the arguments dict the caller passed, by position or by keyword
PassedArguments(args, arguments) == IF args # <<>> THEN args[1] ELSE arguments

----------------------------------------------------------------------------
(* Python dict helpers: a dict is a function whose DOMAIN is its key set *)

DictGet(d, k, default) == IF k \in DOMAIN d THEN d[k] ELSE default

DictSet(d, k, v) == [x \in DOMAIN d \cup {k} |-> IF x = k THEN v ELSE d[x]]

EmptyDict == [x \in {} |-> None]

----------------------------------------------------------------------------
(* fingerprinter.py: the session tracker *)

MarkAttackerDetectedToggle(det, session_id) ==
    DictSet(det, session_id, ~DictGet(det, session_id, FALSE))

\* _attacker_detected[session_id] = True
MarkAttackerDetected(det, session_id) == DictSet(det, session_id, TRUE)

\* _attacker_detected.get(session_id, False)
IsAttackerDetected(det, session_id) == DictGet(det, session_id, FALSE)

RecordToolCallReset(h, session_id, tool_name) == DictSet(h, session_id, <<tool_name>>)

RecordToolCallShared(h, session_id, tool_name) ==
    [x \in DOMAIN h \cup {session_id} |-> Append(DictGet(h, x, <<>>), tool_name)]

RecordToolCallFirstOnly(h, session_id, tool_name) ==
    IF session_id \in DOMAIN h THEN h ELSE DictSet(h, session_id, <<tool_name>>)

\* create the list when the key is new, then append
RecordToolCall(h, session_id, tool_name) ==
    LET h1 == IF session_id \notin DOMAIN h THEN DictSet(h, session_id, <<>>) ELSE h
    IN  DictSet(h1, session_id, Append(h1[session_id], tool_name))

\* _session_tool_history.get(session_id, [])
GetSessionToolHistory(h, session_id) == DictGet(h, session_id, <<>>)

HistoryAfterReadSetDefault(h, session_id) ==
    IF session_id \in DOMAIN h THEN h ELSE DictSet(h, session_id, <<>>)

\* _session_tool_history after get_session_tool_history: dict.get inserts
\* nothing
HistoryAfterRead(h, session_id) == h

\* _attacker_detected after is_attacker_detected
DetectedAfterRead(det, session_id) == det

\* A list object a field can hold: the live list of a session's history
\* (alias) or a list of its own (val).
ListCopy(h, session_id) ==
    [alias |-> FALSE, key |-> None, val |-> GetSessionToolHistory(h, session_id)]

\* get_session_tool_history returns the dict's own list when the key
\* exists, and a new empty list otherwise
ListAlias(h, session_id) ==
    IF session_id \in DOMAIN h
    THEN [alias |-> TRUE, key |-> session_id, val |-> <<>>]
    ELSE [alias |-> FALSE, key |-> None, val |-> <<>>]

\* the items of a list object, read now
Deref(h, obj) == IF obj.alias THEN h[obj.key] ELSE obj.val

ToolCallSequenceFieldAlias(h, session_id) == ListAlias(h, session_id)

\* the list AttackFingerprint keeps for tool_call_sequence when it is
\* constructed with the list get_session_tool_history returned: a snapshot
ToolCallSequenceField(h, session_id) == ListCopy(h, session_id)

NotHeld == [built |-> FALSE, session_id |-> None, seq |-> ListCopy(EmptyDict, None)]

----------------------------------------------------------------------------
(* fingerprinter.py: the fingerprint assembler *)

HasAttr(context, attr) == attr \in DOMAIN context /\ context[attr] # Absent

GetAttr(context, attr, default) ==
    IF HasAttr(context, attr) THEN context[attr] ELSE default

\* the int objects 0 and 7 as attribute values
IntZero == "<int 0>"
IntSeven == "<int 7>"

TruthyNotNone(value) == value # None

\* Python truthiness of an attribute value: None, "" and 0 are falsy
Truthy(value) == value \notin {None, "", IntZero}

\* str(value): a str object is returned unchanged, an int in decimal
Str(value) ==
    IF value = IntZero THEN "0" ELSE IF value = IntSeven THEN "7" ELSE value

\* uuid4().hex of the n-th uuid4() drawn by the process: distinct per draw
UuidHex ==
    <<"u00", "u01", "u02", "u03", "u04", "u05", "u06", "u07", "u08", "u09",
      "u10", "u11", "u12", "u13", "u14", "u15">>

\* f"sess_{uuid4().hex[:12]}" for the n-th uuid4() drawn by the process
FreshSessionId(n) == UuidHex[n + 1]

\* the values uuid4().hex[:8] can take: random, so a later draw can be
\* smaller than or equal to an earlier one
HexValues == {0, 1}

\* f"evt_{utcnow:%Y%m%d_%H%M%S}_{uuid4().hex[:8]}": both parts have a fixed
\* width, so the string is the pair (second, hex)
FreshEventId(sec, hex) == <<"evt", sec, hex>>

\* a < b as Python compares the two id strings
LexLess(a, b) == a[2] < b[2] \/ (a[2] = b[2] /\ a[3] < b[3])

\* isinstance(headers, dict)
IsDict(value) == value \in {"{}", "{h: v}"}

\* _extract_client_metadata: the attributes found, or the sentinel
ExtractClientMetadata(context) ==
    LET m0 == EmptyDict
        m1 == IF HasAttr(context, "user_agent")
              THEN DictSet(m0, "user_agent", context["user_agent"]) ELSE m0
        m2 == IF HasAttr(context, "client_info")
              THEN DictSet(m1, "client_info", context["client_info"]) ELSE m1
        m3 == IF HasAttr(context, "headers") /\ IsDict(context["headers"])
              THEN DictSet(m2, "headers", context["headers"]) ELSE m2
    IN  IF DOMAIN m3 = {} THEN DictSet(m3, "user_agent", "unknown") ELSE m3

RECURSIVE ProbeSessionId(_, _, _)
ProbeSessionId(context, i, n) ==
    IF i > Len(SessionIdAttrs) THEN FreshSessionId(n)
    ELSE IF HasAttr(context, SessionIdAttrs[i]) /\ Truthy(context[SessionIdAttrs[i]])
         THEN Str(context[SessionIdAttrs[i]])
         ELSE ProbeSessionId(context, i + 1, n)

\* the first probed attribute that is present and truthy, else a fresh id
ExtractSessionId(context, n) == ProbeSessionId(context, 1, n)

\* TRUE when _extract_session_id falls back to uuid4()
ExtractDrawsUuid(context) ==
    \A i \in 1..Len(SessionIdAttrs) :
        ~(HasAttr(context, SessionIdAttrs[i]) /\ Truthy(context[SessionIdAttrs[i]]))

\* the parameters fingerprint_attack declares
FingerprintAttackParams == {"tool_name", "arguments", "context", "ghost_spec"}

\* the AttackFingerprint fingerprint_attack builds, given the text its call of
\* ghost_spec.response_generator(arguments) returned; n uuid4() values were
\* drawn before the call
FingerprintAttack(tool_name, arguments, context, text, h, n, sec, hex) ==
    LET session_id == ExtractSessionId(context, n)
    IN  [event_id |-> FreshEventId(sec, hex),
         session_id |-> session_id,
         ghost_tool_called |-> tool_name,
         arguments |-> arguments,
         tool_call_sequence |-> Deref(h, ToolCallSequenceField(h, session_id)),
         client_metadata |-> ExtractClientMetadata(context),
         response_sent |-> text]

----------------------------------------------------------------------------
(* middleware_backup.py: the server, the catalog and the collaborators *)

\* the names _register_ghost_tool has a handler for
GhostToolCatalog ==
    {"list_cloud_secrets", "execute_shell_command", "bypass_security_check",
     "read_private_files", "modify_system_prompt", "escalate_privileges"}

DefaultGhostTools == <<"list_cloud_secrets", "execute_shell_command">>

\* the tools the host registered itself
RealTools == {"read_file"}

\* which of the attributes honeypot() and _call_tool_directly probe the
\* server object has
Shape(ct, impl, gt, dk) ==
    [call_tool |-> ct, call_tool_impl |-> impl, get_tool |-> gt, docket |-> dk]

ServerShapes ==
    {Shape(TRUE, FALSE, TRUE, FALSE),
     Shape(FALSE, TRUE, TRUE, TRUE),
     Shape(FALSE, TRUE, TRUE, FALSE)}

\* the tool sets a host can have registered before it is wrapped
RealToolSets == {RealTools, {}}

\* the ghost_tools and canarytoken_email arguments given to honeypot()
NoList == [given |-> FALSE, list |-> <<>>]
GivenList(l) == [given |-> TRUE, list |-> l]

GhostToolsOptions ==
    {NoList, GivenList(<<"execute_shell_command">>), GivenList(<<>>),
     GivenList(<<"no_such_tool", "execute_shell_command">>),
     GivenList(<<"execute_shell_command", "no_such_tool">>)}

EmailOptions == {None, "sec@example.com"}

\* "arguments or {}"
OrEmpty(arguments) == IF arguments \in {None, "{}"} THEN "{}" ELSE arguments

\* "ghost_tools or [default]": None and the empty list are falsy
GhostToolsOrDefault(opt) ==
    IF ~opt.given \/ opt.list = <<>> THEN DefaultGhostTools ELSE opt.list

\* what the decoy's response_generator returns for these arguments
GenText(name, arguments) == <<"text", name, arguments>>

\* what one invocation of the response_generator returns: a generator need
\* not return the same text on two invocations with the same arguments
GenResult(name, arguments, gen) ==
    IF gen = "ok2" THEN <<"text2", name, arguments>> ELSE GenText(name, arguments)

\* the texts the response_generator can return for these arguments
GenTexts(name, arguments) ==
    {GenResult(name, arguments, "ok"), GenResult(name, arguments, "ok2")}

\* the f-string of the issued credential
CredText(token) == <<"text", token.access_key_id, token.secret_access_key>>

Return(v) == [kind |-> "return", val |-> v]
Raise(e) == [kind |-> "raise", val |-> <<"error", e>>]
NoOutcome == [kind |-> "none", val |-> <<>>]

\* what a real tool function or the host's own call_tool can do when invoked
TargetOutcomes == {Return(<<"value", "r1">>), Raise("ToolError")}

\* what ghost_spec.response_generator can do when invoked
GenOutcomes == {"ok", "ok2", "raise"}

\* what store_event can do when awaited
StoreOutcomes == {"ok", "raise"}

\* what the canarytokens.org request can do
ApiOutcomes == {"200", "fail"}

\* create_aws_canarytoken: the issued bundle on status 200, the locally
\* generated fake bundle (no token id) on any failure
CreateAwsCanarytoken(api) ==
    IF api = "200"
    THEN [access_key_id |-> "AKIA_real", secret_access_key |-> "secret_real",
          canarytoken_id |-> "tok_1"]
    ELSE [access_key_id |-> "AKIA_fake", secret_access_key |-> "secret_fake",
          canarytoken_id |-> None]

NoFingerprint == [event_id |-> None]

----------------------------------------------------------------------------
(* The decoy cache: get_or_generate(real_tools, ttl) with its single-flight *)
(* synthesis and its fallback to the static catalog                         *)

\* digests of two real tool surfaces
Keys == {"k1", "k2"}

Callers == {"c1", "c2"}

\* cache_ttl values, in seconds: zero, one second, longer than the run
TtlValues == {0, 1, 2}

NoEntry == [value |-> <<>>, created |-> -1]

IdleCaller ==
    [at |-> "idle", key |-> None, flight |-> 0, fb |-> FALSE, failed |-> FALSE,
     result |-> NoOutcome]

EmptyCache ==
    [entries |-> EmptyDict, flights |-> {}, synth |-> 0,
     pc |-> [c \in Callers |-> IdleCaller]]

FreshInclusive(entry, ttl, t) == t - entry.created <= ttl

\* now - creation_time < ttl
Fresh(entry, ttl, t) == t - entry.created < ttl

EntryOf(entries, k) == DictGet(entries, k, NoEntry)

HasFreshEntry(entries, k, ttl, t) ==
    k \in DOMAIN entries /\ Fresh(entries[k], ttl, t)

JoinsNoFlight(flights, k) == {}

\* the syntheses in progress for key k, which a new caller waits for
JoinsFlight(flights, k) == {f \in flights : f.key = k}

\* the value the n-th synthesis call produces for key k
SynthValue(k, n) == <<"dynamic", k, n>>

\* the static catalog: the configured static names
StaticValue == <<"static", DefaultGhostTools>>

OnFailureRaise(fb) == Raise("SynthesisFailure")

\* what a caller gets when the synthesis failed, by its fallback_to_static
OnFailure(fb) == IF fb THEN Return(StaticValue) ELSE Raise("SynthesisFailure")

\* a caller asks for the decoys of key k: served from a fresh entry, or
\* waits for the synthesis in progress, or starts one
GetOrGenerate ==
    /\ nCalls < MaxCalls
    /\ \E c \in Callers, k \in Keys, ttl \in TtlValues, fb \in BOOLEAN :
        /\ cache.pc[c].at # "waiting"
        /\ LET entry == EntryOf(cache.entries, k)
               hit == HasFreshEntry(cache.entries, k, ttl, now)
               joined == JoinsFlight(cache.flights, k)
               served == IF hit THEN "cache"
                         ELSE IF joined # {} THEN "join" ELSE "synth"
               id == IF served = "synth" THEN cache.synth + 1
                     ELSE IF served = "join" THEN (CHOOSE f \in joined : TRUE).id
                     ELSE 0
               caller == [at |-> IF hit THEN "done" ELSE "waiting", key |-> k,
                          flight |-> id, fb |-> fb, failed |-> FALSE,
                          result |-> IF hit THEN Return(entry.value) ELSE NoOutcome]
           IN  /\ cache' = [cache EXCEPT
                               !.pc[c] = caller,
                               !.synth = IF served = "synth" THEN @ + 1 ELSE @,
                               !.flights = IF served = "synth"
                                           THEN @ \cup {[id |-> id, key |-> k]}
                                           ELSE @]
               /\ last' = [op |-> "get_or_generate", caller |-> c, key |-> k,
                           ttl |-> ttl, fb |-> fb, served |-> served, at |-> now,
                           entry |-> entry,
                           inflightBefore |-> {f.id : f \in {g \in cache.flights : g.key = k}},
                           result |-> caller.result]
    /\ nCalls' = nCalls + 1
    /\ UNCHANGED <<held, inflight, server, wrap, hist, detected, uuid, events, sent,
                   now, issued>>

\* a synthesis in progress ends: on success its value is cached with the
\* current time and given to every caller waiting for it, on failure every
\* waiting caller gets the static catalog or the error
SynthesisEnds ==
    /\ \E f \in cache.flights, out \in {"ok", "fail"} :
        LET value == SynthValue(f.key, f.id)
            Done(p) ==
                IF p.at = "waiting" /\ p.flight = f.id
                THEN [p EXCEPT !.at = "done", !.failed = (out = "fail"),
                               !.result = IF out = "ok" THEN Return(value)
                                          ELSE OnFailure(p.fb)]
                ELSE p
        IN  /\ cache' = [cache EXCEPT
                            !.entries = IF out = "ok"
                                        THEN DictSet(@, f.key,
                                                     [value |-> value, created |-> now])
                                        ELSE @,
                            !.flights = @ \ {f},
                            !.pc = [c \in Callers |-> Done(cache.pc[c])]]
            /\ last' = [op |-> "synthesis", key |-> f.key, id |-> f.id,
                        outcome |-> out]
    /\ UNCHANGED <<held, inflight, server, wrap, hist, detected, uuid, events, sent,
                   nCalls, now, issued>>

----------------------------------------------------------------------------
(* middleware_backup.py: honeypot() *)

NotWrapped ==
    [state |-> "unwrapped", ghost_tools |-> <<>>, ghost_tool_names |-> {},
     canarytoken_email |-> None, original_call_tool |-> FALSE, patched |-> "none"]

\* index of the first name of the list that is not in the catalog, or
\* Len + 1 when every name is known
RECURSIVE FirstUnknown(_, _)
FirstUnknown(list, i) ==
    IF i > Len(list) THEN i
    ELSE IF list[i] \notin GhostToolCatalog THEN i
    ELSE FirstUnknown(list, i + 1)

\* the attribute honeypot() replaces by the interceptor
PatchPoint(shape) ==
    IF shape.call_tool_impl THEN "_call_tool_impl"
    ELSE IF shape.call_tool THEN "call_tool"
    ELSE "_patch_tool_access"

\* the server's tool listing after the tool decorator registered these names
RegisterGhostToolsOnly(tools, registered) == registered

RegisterGhostTools(tools, registered) == tools \cup registered

Init ==
    /\ \E shape \in ServerShapes, tools \in RealToolSets :
        server = [shape |-> shape, tools |-> tools, real |-> tools]
    /\ wrap = NotWrapped
    /\ hist = EmptyDict
    /\ detected = EmptyDict
    /\ uuid = 0
    /\ events = <<>>
    /\ sent = [s \in Sessions |-> <<>>]
    /\ nCalls = 0
    /\ now = 0
    /\ issued = <<>>
    /\ held = NotHeld
    /\ inflight = {}
    /\ cache = EmptyCache
    /\ last = [op |-> "none"]

\* honeypot(server, ghost_tools, canarytoken_email): registers the ghost
\* tools in list order, raising ValueError at the first unknown name, then
\* saves server.call_tool and installs the interceptor
Honeypot ==
    /\ wrap.state = "unwrapped"
    /\ \E opt \in GhostToolsOptions, email \in EmailOptions :
        LET list == GhostToolsOrDefault(opt)
            k == FirstUnknown(list, 1)
            registered == {list[i] : i \in 1..(k - 1)}
        IN  /\ server' = [server EXCEPT !.tools = RegisterGhostTools(@, registered)]
            /\ IF k <= Len(list)
               THEN /\ wrap' = [NotWrapped EXCEPT !.state = "failed"]
                    /\ last' = [op |-> "honeypot", ghost_tools |-> opt,
                                outcome |-> Raise("ValueError")]
               ELSE /\ wrap' = [state |-> "installed",
                                ghost_tools |-> list,
                                ghost_tool_names |-> {list[i] : i \in 1..Len(list)},
                                canarytoken_email |-> email,
                                original_call_tool |-> server.shape.call_tool,
                                patched |-> PatchPoint(server.shape)]
                    /\ last' = [op |-> "honeypot", ghost_tools |-> opt,
                                outcome |-> Return(<<"server">>)]
    /\ UNCHANGED <<held, inflight, cache, hist, detected, uuid, events, sent, nCalls, now, issued>>

----------------------------------------------------------------------------
(* middleware_backup.py: intercepting_call_tool *)

\* session_id = getattr(context, "session_id", "unknown")
InterceptorSessionId(context) == GetAttr(context, "session_id", "unknown")

IsGhostToolByCatalog(name, ghost_tool_names) == name \in GhostToolCatalog

\* name in ghost_tool_names
IsGhostTool(name, ghost_tool_names) == name \in ghost_tool_names

\* the keyword arguments the interceptor passes to fingerprint_attack
InterceptorFingerprintKwargs ==
    {"tool_name", "arguments", "context", "ghost_spec", "canarytoken_id"}

\* a call with a keyword the callee does not declare raises TypeError
CallAccepted(kwargs, params) == kwargs \subseteq params

\* original_call_tool(name, arguments, *args, **kwargs): the positional
\* values after the name and the context keyword the saved handler gets
ForwardCall(name, arguments, args, context) ==
    [name |-> name, positional |-> <<arguments>> \o args, context |-> context]

\* tool.fn(**(arguments or {}))
FnCall(name, arguments) == [name |-> name, arguments |-> OrEmpty(arguments)]

\* config.canarytoken_email and name == "list_cloud_secrets"
IssuesCredential(name, email) == email # None /\ name = "list_cloud_secrets"

\* the decoy branch: trap credential, response generator, fingerprint_attack,
\* store_event, ToolResult. gen is what the generator does at its call in
\* the interceptor, gen2 at its call inside fingerprint_attack.
DecoyPath(name, arguments, context, h, n, email, gen, gen2, api, store, sec, hex) ==
    LET issue == IssuesCredential(name, email)
        token == CreateAwsCanarytoken(api)
        canarytoken_id == IF issue THEN token.canarytoken_id ELSE None
        credential == IF issue THEN CredText(token) ELSE <<>>
        fake_response == GenResult(name, OrEmpty(arguments), gen)
        base == [path |-> "decoy", outcome |-> NoOutcome, fp |-> NoFingerprint,
                 stored |-> FALSE, storeFailed |-> FALSE, draws |-> 0,
                 canarytoken_id |-> canarytoken_id, credential |-> credential,
                 forwards |-> <<>>, invoked |-> <<>>, raised |-> <<>>,
                 target |-> NoOutcome]
        drawsFp == IF ExtractDrawsUuid(context) THEN 2 ELSE 1
    IN  IF gen = "raise"
        THEN [base EXCEPT !.outcome = Raise("GeneratorError")]
        ELSE IF ~CallAccepted(InterceptorFingerprintKwargs, FingerprintAttackParams)
        THEN [base EXCEPT !.outcome = Raise("TypeError")]
        ELSE IF gen2 = "raise"
        THEN [base EXCEPT !.outcome = Raise("GeneratorError")]
        ELSE [base EXCEPT
                !.fp = FingerprintAttack(name, OrEmpty(arguments), context,
                                         GenResult(name, OrEmpty(arguments), gen2),
                                         h, n, sec, hex),
                !.draws = drawsFp,
                !.stored = (store = "ok"),
                !.storeFailed = (store = "raise"),
                !.outcome = Return(fake_response)]

\* _call_tool_directly(server, name, arguments): f1 is what the tool function
\* does when invoked through get_tool, f2 when invoked through the docket
CallToolDirectly(srv, name, arguments, f1, f2) ==
    LET known == name \in srv.tools
        viaGetTool == srv.shape.get_tool /\ known
        viaDocket == srv.shape.docket /\ known
        first == IF viaGetTool THEN <<FnCall(name, arguments)>> ELSE <<>>
        firstRaised == IF viaGetTool /\ f1.kind = "raise" THEN <<f1>> ELSE <<>>
    IN  IF viaGetTool /\ f1.kind = "return"
        THEN [outcome |-> f1, invoked |-> first, raised |-> <<>>]
        ELSE IF viaDocket
        THEN [outcome |-> f2,
              invoked |-> first \o <<FnCall(name, arguments)>>,
              raised |-> firstRaised \o (IF f2.kind = "raise" THEN <<f2>> ELSE <<>>)]
        ELSE [outcome |-> Raise("ValueError: Tool not found"),
              invoked |-> first, raised |-> firstRaised]

\* the pass-through branch: the saved original handler when there is one,
\* the direct call otherwise
LegitPath(srv, w, name, arguments, args, context, t, f2) ==
    LET base == [path |-> "legit", outcome |-> NoOutcome, fp |-> NoFingerprint,
                 stored |-> FALSE, storeFailed |-> FALSE, draws |-> 0,
                 canarytoken_id |-> None, credential |-> <<>>,
                 forwards |-> <<>>, invoked |-> <<>>, raised |-> <<>>,
                 target |-> NoOutcome]
        d == CallToolDirectly(srv, name, arguments, t, f2)
    IN  IF w.original_call_tool
        THEN [base EXCEPT !.outcome = t,
                          !.target = t,
                          !.forwards = <<ForwardCall(name, arguments, args, context)>>,
                          !.raised = IF t.kind = "raise" THEN <<t>> ELSE <<>>]
        ELSE [base EXCEPT !.outcome = d.outcome,
                          !.invoked = d.invoked,
                          !.raised = d.raised]

\* the names of the calls of session s: those whose context carries
\* session_id = s
SentAfter(context, name) ==
    [s \in Sessions |->
        IF HasAttr(context, "session_id") /\ context.session_id = s
        THEN Append(sent[s], name) ELSE sent[s]]

Handled(name, arguments, args, context, r) ==
    LET session_id == InterceptorSessionId(context)
    IN  /\ hist' = RecordToolCall(hist, session_id, name)
        /\ uuid' = uuid + r.draws
        /\ events' = IF r.stored THEN Append(events, r.fp) ELSE events
        /\ issued' = IF r.fp # NoFingerprint THEN Append(issued, r.fp.event_id)
                      ELSE issued
        /\ sent' = SentAfter(context, name)
        /\ nCalls' = nCalls + 1
        /\ last' = [op |-> "intercept", name |-> name, arguments |-> arguments,
                    args |-> args,
                    context |-> context, key |-> session_id,
                    prior |-> Len(GetSessionToolHistory(hist, session_id)),
                    priorExtracted |->
                        Len(GetSessionToolHistory(hist, ExtractSessionId(context, uuid))),
                    resolved |-> ExtractSessionId(context, uuid),
                    path |-> r.path, target |-> r.target,
                    outcome |-> r.outcome, fp |-> r.fp,
                    stored |-> r.stored, storeFailed |-> r.storeFailed,
                    canarytoken_id |-> r.canarytoken_id,
                    credential |-> r.credential,
                    forwards |-> r.forwards, invoked |-> r.invoked,
                    raised |-> r.raised]
        /\ UNCHANGED <<held, inflight, cache, server, wrap, detected, now>>

\* the outcomes of a collaborator that is invoked only when reached: one
\* value stands for "not invoked" otherwise
OraclesIf(reached, outcomes) ==
    IF reached THEN outcomes ELSE {CHOOSE o \in outcomes : TRUE}

\* the call of fingerprint_attack gets past its argument binding
FingerprintReached == CallAccepted(InterceptorFingerprintKwargs, FingerprintAttackParams)

\* the decoy branch, which runs to its end without suspending: the
\* credential request is a blocking call and the awaited fingerprint_attack
\* raises at its call
DecoyHandled(name, arguments, args, context) ==
    LET h1 == RecordToolCall(hist, InterceptorSessionId(context), name)
    IN  \E gen \in GenOutcomes,
           gen2 \in OraclesIf(FingerprintReached, GenOutcomes),
           api \in OraclesIf(IssuesCredential(name, wrap.canarytoken_email),
                             ApiOutcomes),
           store \in OraclesIf(FingerprintReached, StoreOutcomes),
           hex \in OraclesIf(FingerprintReached, HexValues) :
           Handled(name, arguments, args, context,
                   DecoyPath(name, arguments, context, h1, uuid,
                             wrap.canarytoken_email, gen, gen2, api, store,
                             now, hex))

\* one call dispatched through the installed interceptor
InterceptingCallTool ==
    /\ wrap.state = "installed"
    /\ nCalls < MaxCalls
    /\ \E name \in ToolNames, call \in CallForms, context \in Contexts :
        LET arguments == call.arguments
            args == call.args
            h1 == RecordToolCall(hist, InterceptorSessionId(context), name)
        IN  IF IsGhostTool(name, wrap.ghost_tool_names)
            THEN DecoyHandled(name, arguments, args, context)
            ELSE \E t \in TargetOutcomes,
                    f2 \in OraclesIf(~wrap.original_call_tool /\ server.shape.docket
                                       /\ name \in server.tools,
                                     TargetOutcomes) :
                    Handled(name, arguments, args, context,
                            LegitPath(server, wrap, name, arguments, args,
                                      context, t, f2))

\* a call enters the interceptor while others are suspended in it: it is
\* recorded at once, and a legitimate call then suspends at
\* "await original_call_tool(...)"
CallEnters ==
    /\ wrap.state = "installed"
    /\ nCalls < MaxCalls
    /\ \E name \in ToolNames, call \in {KeywordCall}, context \in Contexts :
        IF IsGhostTool(name, wrap.ghost_tool_names)
        THEN DecoyHandled(name, call.arguments, call.args, context)
        ELSE /\ hist' = RecordToolCall(hist, InterceptorSessionId(context), name)
             /\ sent' = SentAfter(context, name)
             /\ inflight' = inflight \cup
                    {[id |-> nCalls + 1, name |-> name, arguments |-> call.arguments,
                      args |-> call.args, context |-> context]}
             /\ nCalls' = nCalls + 1
             /\ last' = [op |-> "enter", name |-> name, context |-> context,
                         key |-> InterceptorSessionId(context)]
             /\ UNCHANGED <<held, cache, server, wrap, detected, uuid, events, now,
                            issued>>

\* the target of a suspended call finishes and the call returns what it gave
CallResumes ==
    /\ \E task \in inflight, t \in TargetOutcomes :
        LET r == LegitPath(server, wrap, task.name, task.arguments, task.args,
                           task.context, t, t)
        IN  /\ inflight' = inflight \ {task}
            /\ last' = [op |-> "resume", name |-> task.name,
                        context |-> task.context,
                        key |-> InterceptorSessionId(task.context),
                        outcome |-> r.outcome, forwards |-> r.forwards]
    /\ UNCHANGED <<held, cache, server, wrap, hist, detected, uuid, events, sent,
                   nCalls, now, issued>>

----------------------------------------------------------------------------
(* middleware_backup.py: the handlers _register_ghost_tool registers *)

\* the arguments dict the handler of each ghost tool builds from its parameters
HandlerArguments(name) ==
    IF name = "list_cloud_secrets" THEN "{}" ELSE "{command: id}"

\* the AttackFingerprint a registered handler constructs itself
HandlerFingerprint(name, result, n, sec, hex) ==
    [event_id |-> FreshEventId(sec, hex),
     session_id |-> FreshSessionId(n + 1),
     ghost_tool_called |-> name,
     arguments |-> HandlerArguments(name),
     tool_call_sequence |-> <<name>>,
     client_metadata |-> EmptyDict,
     response_sent |-> result]

HandlerResultPropagating(name, gen, store) ==
    IF gen = "raise" THEN Raise("GeneratorError")
    ELSE IF store = "raise" THEN Raise("StoreError")
    ELSE Return(GenResult(name, HandlerArguments(name), gen))

\* what the handler gives its caller: the generator's text, whatever
\* store_event did (its exception is caught and printed)
HandlerResult(name, gen, store) ==
    IF gen = "raise" THEN Raise("GeneratorError")
    ELSE Return(GenResult(name, HandlerArguments(name), gen))

\* the host invokes a registered ghost-tool handler
GhostHandler ==
    /\ nCalls < MaxCalls
    /\ \E name \in server.tools \cap GhostToolCatalog,
          gen \in GenOutcomes, store \in StoreOutcomes :
      \E hex \in OraclesIf(gen # "raise", HexValues) :
        LET result == GenResult(name, HandlerArguments(name), gen)
            fp == HandlerFingerprint(name, result, uuid, now, hex)
            built == gen # "raise"
        IN  /\ uuid' = IF built THEN uuid + 2 ELSE uuid
            /\ issued' = IF built THEN Append(issued, fp.event_id) ELSE issued
            /\ events' = IF built /\ store = "ok" THEN Append(events, fp) ELSE events
            /\ last' = [op |-> "handler", name |-> name,
                        arguments |-> HandlerArguments(name),
                        outcome |-> HandlerResult(name, gen, store),
                        generated |-> IF built THEN result ELSE <<>>,
                        fp |-> IF built THEN fp ELSE NoFingerprint,
                        stored |-> built /\ store = "ok",
                        storeFailed |-> built /\ store = "raise"]
    /\ nCalls' = nCalls + 1
    /\ UNCHANGED <<held, inflight, cache, server, wrap, hist, detected, sent, now>>

\* the clock reaches the next second
Tick ==
    /\ now < MaxClock
    /\ now' = now + 1
    /\ UNCHANGED <<held, inflight, cache, server, wrap, hist, detected, uuid, events, sent, nCalls,
                   issued, last>>

----------------------------------------------------------------------------
(* fingerprinter.py: the module's functions called directly *)

\* the decoy fingerprint_attack is called for
FingerprintedTools == {"list_cloud_secrets"}

\* fingerprint_attack(tool_name, arguments, context, ghost_spec): the session
\* id is extracted first, then the history and the metadata are read, then
\* the generator is called, with nothing around it to catch its exception
FingerprintAttackCall ==
    /\ nCalls < MaxCalls
    /\ \E tool_name \in FingerprintedTools, context \in MetaContexts,
          gen \in GenOutcomes :
      \E hex \in OraclesIf(gen # "raise", HexValues) :
        LET arguments == HandlerArguments(tool_name)
            built == gen # "raise"
            fp == FingerprintAttack(tool_name, arguments, context,
                                    GenResult(tool_name, arguments, gen), hist, uuid,
                                    now, hex)
        IN  /\ uuid' = uuid + (IF ExtractDrawsUuid(context) THEN 1 ELSE 0)
                             + (IF built THEN 1 ELSE 0)
            /\ issued' = IF built THEN Append(issued, fp.event_id) ELSE issued
            /\ held' = IF built
                       THEN [built |-> TRUE, session_id |-> fp.session_id,
                             seq |-> ToolCallSequenceField(hist, fp.session_id)]
                       ELSE held
            /\ last' = [op |-> "fingerprint_attack", name |-> tool_name,
                        arguments |-> arguments, context |-> context,
                        outcome |-> IF built THEN Return(<<"fingerprint">>)
                                    ELSE Raise("GeneratorError"),
                        fp |-> IF built THEN fp ELSE NoFingerprint]
    /\ nCalls' = nCalls + 1
    /\ UNCHANGED <<inflight, cache, server, wrap, hist, detected, events, sent, now>>

\* the values an attribute of the context can hold
ProbeValues == {Absent, None, "", IntZero, IntSeven, "s1"}

\* the context objects over the four probed attributes; the attribute
\* probed last is absent, empty or a string
ProbeContexts ==
    [session_id : ProbeValues, id : ProbeValues, request_id : ProbeValues,
     connection_id : {Absent, "", "s1"}]

\* the fresh ids earlier calls of _extract_session_id returned
EarlierFresh ==
    IF last.op = "_extract_session_id"
    THEN last.earlier \cup (IF last.fresh THEN {last.result} ELSE {})
    ELSE {}

\* _extract_session_id(context)
ExtractSessionIdCall ==
    /\ nCalls < MaxCalls
    /\ \E context \in ProbeContexts :
        /\ uuid' = uuid + (IF ExtractDrawsUuid(context) THEN 1 ELSE 0)
        /\ last' = [op |-> "_extract_session_id", context |-> context,
                    result |-> ExtractSessionId(context, uuid),
                    fresh |-> ExtractDrawsUuid(context),
                    earlier |-> EarlierFresh]
    /\ nCalls' = nCalls + 1
    /\ UNCHANGED <<held, inflight, cache, server, wrap, hist, detected, events, sent,
                   now, issued>>

\* record_tool_call(session_id, tool_name)
RecordCall ==
    /\ nCalls < MaxCalls
    /\ \E s \in Sessions, name \in ToolNames :
        /\ hist' = RecordToolCall(hist, s, name)
        /\ last' = [op |-> "record_tool_call", session_id |-> s, name |-> name]
    /\ nCalls' = nCalls + 1
    /\ UNCHANGED <<held, inflight, cache, server, wrap, detected, uuid, events, sent, now, issued>>

\* mark_attacker_detected(session_id)
MarkDetected ==
    /\ nCalls < MaxCalls
    /\ \E s \in Sessions :
        /\ detected' = MarkAttackerDetected(detected, s)
        /\ last' = [op |-> "mark_attacker_detected", session_id |-> s]
    /\ nCalls' = nCalls + 1
    /\ UNCHANGED <<held, inflight, cache, server, wrap, hist, uuid, events, sent, now, issued>>

\* get_session_tool_history(session_id)
ReadHistory ==
    /\ nCalls < MaxCalls
    /\ \E s \in Sessions :
        /\ last' = [op |-> "get_session_tool_history", session_id |-> s,
                    result |-> GetSessionToolHistory(hist, s)]
        /\ hist' = HistoryAfterRead(hist, s)
    /\ nCalls' = nCalls + 1
    /\ UNCHANGED <<held, inflight, cache, server, wrap, detected, uuid, events, sent,
                   now, issued>>

\* is_attacker_detected(session_id)
ReadDetected ==
    /\ nCalls < MaxCalls
    /\ \E s \in Sessions :
        /\ last' = [op |-> "is_attacker_detected", session_id |-> s,
                    result |-> IsAttackerDetected(detected, s)]
        /\ detected' = DetectedAfterRead(detected, s)
    /\ nCalls' = nCalls + 1
    /\ UNCHANGED <<held, inflight, cache, server, wrap, hist, uuid, events, sent,
                   now, issued>>

----------------------------------------------------------------------------

\* a wrapped server whose calls are dispatched through the interceptor
Next == Honeypot \/ InterceptingCallTool

Spec == Init /\ [][Next]_vars

\* a host with the call_tool attribute and its own tool
InitTracker == Init /\ server.shape.call_tool /\ server.tools = RealTools

\* a server whose host invokes the registered ghost-tool handlers itself
NextHandlers == Honeypot \/ GhostHandler \/ Tick

SpecHandlers == InitTracker /\ [][NextHandlers]_vars

\* a process that records calls and calls fingerprint_attack itself
NextFingerprinter ==
    \/ FingerprintAttackCall
    \/ RecordCall
    \/ Tick

SpecFingerprinter == InitTracker /\ [][NextFingerprinter]_vars

\* the tracker's functions called between the calls of a wrapped server
NextTracker ==
    \/ Honeypot
    \/ InterceptingCallTool
    \/ RecordCall
    \/ MarkDetected
    \/ ReadHistory
    \/ ReadDetected

SpecTracker == InitTracker /\ [][NextTracker]_vars

\* calls that enter the interceptor while earlier ones are still suspended
NextConcurrent ==
    \/ Honeypot
    \/ CallEnters
    \/ CallResumes
    \/ ReadHistory

SpecConcurrent == InitTracker /\ [][NextConcurrent]_vars

\* callers of the decoy cache while the clock runs
NextCache ==
    \/ GetOrGenerate
    \/ SynthesisEnds
    \/ Tick

SpecCache == InitTracker /\ [][NextCache]_vars

\* _extract_session_id applied to one context after another
NextExtract == ExtractSessionIdCall

SpecExtract == InitTracker /\ [][NextExtract]_vars

----------------------------------------------------------------------------
(* models/config.py: HoneyMCPConfig.load *)

\* the path of the current user's home directory
Home == "/home/u"

\* the explicit paths given to load: none, the empty string, a relative path
\* and a path under the home directory
ExplicitPaths == {None, "", "p.yaml", "~/p.yaml"}

\* Path(path): the components of the path
PathOf(path) == IF path = "~/p.yaml" THEN <<"~", "p.yaml">> ELSE <<path>>

\* Path.expanduser: a leading "~" becomes the home directory
ExpandUser(p) == IF p[1] = "~" THEN <<Home>> \o Tail(p) ELSE p

\* Path.home() / ".honeymcp" / "config.yaml"
HomeConfig == <<Home, ".honeymcp", "config.yaml">>

\* the files that can exist when load runs
ConfigFiles ==
    {<<"p.yaml">>, <<Home, "p.yaml">>, <<"config.yaml">>, <<"honeymcp.yaml">>,
     HomeConfig}

\* the paths load tries, in order
SearchPaths(path) ==
    IF path \notin {None, ""}
    THEN <<PathOf(path)>>
    ELSE <<<<"config.yaml">>, <<"honeymcp.yaml">>, HomeConfig>>

\* cls.from_yaml(path): the configuration read from that file
FromYaml(file) == [origin |-> "file", file |-> file]

\* cls(): the default configuration
DefaultConfig == [origin |-> "default", file |-> <<>>]

RECURSIVE FirstExisting(_, _, _)
\* the loop over search_paths: the configuration of the first one that exists
FirstExisting(paths, exists, i) ==
    IF i > Len(paths) THEN DefaultConfig
    ELSE IF ExpandUser(paths[i]) \in exists
         THEN FromYaml(ExpandUser(paths[i]))
         ELSE FirstExisting(paths, exists, i + 1)

\* HoneyMCPConfig.load(path) on a file system where the files of exists exist
Load(path, exists) == FirstExisting(SearchPaths(path), exists, 1)

LoadConfig ==
    /\ nCalls < MaxCalls
    /\ \E path \in ExplicitPaths, exists \in SUBSET ConfigFiles :
        last' = [op |-> "load", path |-> path, exists |-> exists,
                 outcome |-> Return(Load(path, exists))]
    /\ nCalls' = nCalls + 1
    /\ UNCHANGED <<server, wrap, hist, detected, uuid, events, sent, now, issued,
                   held, inflight, cache>>

----------------------------------------------------------------------------
(* llm_client_watsonx.py: LLMClient.generate_response *)

\* the keyword arguments a caller passes to generate_response, each dict as
\* the set of its (key, value) items
KwargsOptions ==
    {{}, {<<"timeout", "30">>}, {<<"temperature", "0.7">>},
     {<<"temperature", "0.7">>, <<"timeout", "30">>}}

\* the keys of a dict
KwargKeys(d) == {item[1] : item \in d}

\* dict.setdefault(k, v)
SetDefault(d, k, v) == IF k \in KwargKeys(d) THEN d ELSE d \cup {<<k, v>>}

\* TEMPERATURE_ONLINE in the environment
TemperatureEnv == {Absent, "0.2"}

\* WATSONX_MAX_TOKENS in the environment: unset, or the number it holds
WatsonxMaxTokensEnv == {<<>>, <<5000>>}

\* float(os.getenv("TEMPERATURE_ONLINE", 0))
DefaultTemperature(env) == IF env = Absent THEN "0.0" ELSE env

\* int(os.getenv("WATSONX_MAX_TOKENS", 10000))
WatsonxMaxTokens(env) == IF env = <<>> THEN 10000 ELSE env[1]

\* litellm.get_max_tokens(self.model): the limit of the model, or an exception
\* for a model the library has no entry for
ModelMaxTokens == {4096, 8192, 20000}
UnmappedModel == 0
GetMaxTokens == ModelMaxTokens \cup {UnmappedModel}

\* the limit passed with the request
ClampMaxTokens(llm_defined, watsonx_max_tokens) ==
    IF llm_defined > watsonx_max_tokens THEN watsonx_max_tokens ELSE llm_defined

\* what completion(...) and the read of response.choices[0].message.content do:
\* a text, or the exception raised
CompletionOutcomes ==
    {Return(<<"text", "t1">>), Raise("Timeout"), Raise("AuthenticationError"),
     Raise("RateLimitError"), Raise("IndexError")}

\* the except clause: every exception of the try block is raised again as a
\* plain Exception whose message holds the text of the original one
Reraise(e) ==
    [kind |-> "raise",
     val |-> <<"error", "Exception", "Error generating LLM response: ", e.val[2]>>]

\* the arguments completion is called with, besides model, messages and the
\* connection settings
CompletionRequest(kwargs, env_temperature, max_tokens) ==
    [max_tokens |-> max_tokens,
     kwargs |-> SetDefault(kwargs, "temperature", DefaultTemperature(env_temperature))]

GenerateResponse ==
    /\ nCalls < MaxCalls
    /\ \E kwargs \in KwargsOptions, et \in TemperatureEnv, llm_defined \in GetMaxTokens :
        \E em \in OraclesIf(llm_defined # UnmappedModel, WatsonxMaxTokensEnv) :
        \E boundary \in OraclesIf(llm_defined # UnmappedModel, CompletionOutcomes) :
            last' =
                IF llm_defined = UnmappedModel
                THEN [op |-> "generate_response", sent |-> FALSE,
                      request |-> CompletionRequest(kwargs, et, UnmappedModel),
                      boundary |-> NoOutcome,
                      outcome |-> Raise("Exception")]
                ELSE [op |-> "generate_response", sent |-> TRUE,
                      request |-> CompletionRequest(kwargs, et,
                                      ClampMaxTokens(llm_defined, WatsonxMaxTokens(em))),
                      boundary |-> boundary,
                      outcome |-> IF boundary.kind = "raise" THEN Reraise(boundary)
                                  ELSE Return(boundary.val)]
    /\ nCalls' = nCalls + 1
    /\ UNCHANGED <<server, wrap, hist, detected, uuid, events, sent, now, issued,
                   held, inflight, cache>>

\* a process that loads its configuration and talks to the LLM backend
NextStartup == LoadConfig \/ GenerateResponse

SpecStartup == InitTracker /\ [][NextStartup]_vars

----------------------------------------------------------------------------
(* Properties *)

Intercepted == last.op = "intercept"

\* the call just handled named a tool of the active decoy set
DecoyCall == Intercepted /\ last.name \in wrap.ghost_tool_names

LegitCall == Intercepted /\ last.name \notin wrap.ghost_tool_names

\* session s has had a decoy call dispatched through the interceptor
HadDecoyCall(s) == \E i \in 1..Len(sent[s]) : sent[s][i] \in wrap.ghost_tool_names

\* C1: for every session id s, get_session_tool_history(s) is exactly the
\* names of the calls of s dispatched through the interceptor, in call
\* order: none lost, duplicated or reordered.
C1_HistoryIsCallSequence ==
    \A s \in Sessions : GetSessionToolHistory(hist, s) = sent[s]

\* two different names of s1 recorded in order around calls of s2
C1_Witness ==
    /\ Len(sent["s1"]) = 2
    /\ sent["s1"][1] # sent["s1"][2]
    /\ Len(sent["s2"]) = 1

\* C2: is_attacker_detected(s) is false before the first decoy call of s
\* and true in every state after that call has been handled.
C2_DetectedIffDecoyCalled ==
    \A s \in Sessions : IsAttackerDetected(detected, s) <=> HadDecoyCall(s)

\* C3: every decoy trigger handled by the interceptor results in a
\* fingerprint whose tool_call_sequence ends with the triggering name and
\* has one entry more than the calls recorded for the session before.
C3_SequenceEndsWithTrigger ==
    DecoyCall =>
        /\ last.fp # NoFingerprint
        /\ Len(last.fp.tool_call_sequence) = last.prior + 1
        /\ last.fp.tool_call_sequence[Len(last.fp.tool_call_sequence)] = last.name

\* C4: the session id the interceptor records a call under is the id
\* _extract_session_id resolves from the same context.
C4_SameSessionId == Intercepted => last.key = last.resolved

\* C5: a caller that triggers a decoy receives a non-empty text result and
\* never an error.
C5_DecoyCallerGetsText ==
    DecoyCall => last.outcome.kind = "return" /\ last.outcome.val # <<>>

\* C6: when store_event fails for a decoy trigger, the caller still gets
\* the text it would have got had the store succeeded, and no error.
C6_StoreFailureDropped ==
    (last.op \in {"intercept", "handler"} /\ last.storeFailed) =>
        /\ last.outcome.kind = "return"
        /\ last.outcome.val \in GenTexts(last.name, OrEmpty(last.arguments))
        /\ last.op = "handler" => last.outcome.val = last.generated

\* a ghost-tool trigger whose store_event raised
C6_Witness == last.op = "handler" /\ last.storeFailed /\ events = <<>>

\* C7: a call whose name is not in the active decoy set is forwarded to the
\* saved original dispatch target with the same name, the arguments the
\* caller passed and the same context, and the target's return value is
\* returned unmodified.
C7_ForwardedUnchanged ==
    (LegitCall /\ wrap.original_call_tool) =>
        /\ last.forwards =
              <<[name |-> last.name,
                 positional |-> <<PassedArguments(last.args, last.arguments)>>,
                 context |-> last.context]>>
        /\ last.target.kind = "return" => last.outcome = last.target

\* C8: on the legitimate path every exception raised by the real tool or
\* the original dispatch target reaches the caller unchanged, on both
\* forwarding routes.
C8_ExceptionPropagates ==
    LegitCall => \A i \in 1..Len(last.raised) : last.outcome = last.raised[i]

\* C9: for a tool that is neither a real tool nor a decoy the interceptor
\* itself produces no not-found error, on either forwarding route.
C9_NoInventedNotFound ==
    (LegitCall /\ last.name \notin server.tools \cup GhostToolCatalog) =>
        last.outcome # Raise("ValueError: Tool not found")

Handed == last.stored \/ last.storeFailed

\* C11: every decoy call hands exactly one AttackFingerprint to the event
\* sink, with ghost_tool_called equal to the triggering name, and a
\* legitimate call hands none.
C11_OneFingerprintPerDecoy ==
    Intercepted =>
        /\ Handed <=> DecoyCall
        /\ DecoyCall => last.fp # NoFingerprint /\ last.fp.ghost_tool_called = last.name

\* C12: when a contact address is configured and the credential is issued
\* for a list_cloud_secrets trigger, the caller gets the text formatted from
\* the issued credential.
C12_IssuedCredentialReturned ==
    (DecoyCall /\ last.credential # <<>> /\ last.canarytoken_id # None) =>
        last.outcome = Return(last.credential)

\* C13: when credential issuance fails during a decoy trigger the call is
\* not aborted: the fingerprint is handed to the sink and the caller gets
\* the decoy's own synthetic response.
C13_IssuanceFailureRecovered ==
    (DecoyCall /\ last.credential # <<>> /\ last.canarytoken_id = None
        /\ last.outcome # Raise("GeneratorError")) =>
        /\ last.outcome.kind = "return"
        /\ last.outcome.val \in GenTexts(last.name, OrEmpty(last.arguments))
        /\ Handed

\* C14: every bundle create_aws_canarytoken returns carries a token
\* identifier; a failed API call is signalled by an exception instead.
C14_BundleHasTokenId ==
    (Intercepted /\ last.credential # <<>>) => last.canarytoken_id # None

\* the names of a list
Names(list) == {list[i] : i \in 1..Len(list)}

\* C19: a wrapped server still lists every tool of the host and lists the
\* configured ghost tools; a server that was not wrapped lists no ghost tool.
C19_ListingKeepsRealAddsGhost ==
    /\ wrap.state = "installed" =>
        /\ server.real \subseteq server.tools
        /\ Names(wrap.ghost_tools) \subseteq server.tools
    /\ wrap.state = "unwrapped" => server.tools \cap GhostToolCatalog = {}

C19_Witness ==
    /\ wrap.state = "installed"
    /\ server.real # {}
    /\ server.tools = server.real \cup Names(wrap.ghost_tools)
    /\ Names(wrap.ghost_tools) # {}

\* C20: whenever a ghost_tools list is given to honeypot(), the empty list
\* included, the decoy set and the registered ghost tools are exactly that
\* list; the default pair is used only when no list is given.
C20_GhostListIsPureInput ==
    (last.op = "honeypot" /\ wrap.state = "installed") =>
        LET list == IF last.ghost_tools.given THEN last.ghost_tools.list
                    ELSE DefaultGhostTools
        IN  /\ wrap.ghost_tools = list
            /\ wrap.ghost_tool_names = Names(list)
            /\ server.tools \ server.real = Names(list)

\* a fingerprint was built by the operation just performed
BuiltFingerprint ==
    /\ last.op \in {"intercept", "handler", "fingerprint_attack"}
    /\ last.fp # NoFingerprint

\* C15: every fingerprint that is built carries non-empty client metadata,
\* whether fingerprint_attack or a registered handler built it.
C15_ClientMetadataNonEmpty ==
    BuiltFingerprint => DOMAIN last.fp.client_metadata # {}

\* C16: fingerprint_attack returns a fingerprint for every context and every
\* decoy, also when the decoy's response generator fails.
C16_FingerprintAttackNeverRaises ==
    last.op = "fingerprint_attack" => last.outcome.kind = "return"

\* C17: the event ids generated are pairwise different and every id sorts
\* lexically after the ids generated before it, also within one clock second.
C17_EventIdsUniqueAndOrdered ==
    \A i, j \in 1..Len(issued) :
        i < j => issued[i] # issued[j] /\ LexLess(issued[i], issued[j])

\* C18: once is_attacker_detected(s) is true it stays true, whatever
\* record_tool_call, mark_attacker_detected, get_session_tool_history,
\* is_attacker_detected or intercepted call comes next.
C18_DetectedIsMonotone ==
    [][\A s \in Sessions :
        IsAttackerDetected(detected, s) => IsAttackerDetected(detected', s)]_vars

\* s1 is flagged and a call of s1 has since been dispatched through the
\* interceptor
C18_Witness ==
    /\ IsAttackerDetected(detected, "s1")
    /\ Intercepted
    /\ last.key = "s1"
    /\ nCalls >= 2

\* C24: for every decoy trigger whose response generator works, a
\* fingerprint is built and its response_sent is the text the caller gets,
\* also when the generator returns a different text on its next invocation.
C24_ResponseSentIsReturnedText ==
    (DecoyCall /\ last.outcome # Raise("GeneratorError")) =>
        /\ last.fp # NoFingerprint
        /\ last.outcome = Return(last.fp.response_sent)

Usable(context, attr) ==
    context[attr] # Absent /\ context[attr] \notin {None, "", IntZero}

\* C28: _extract_session_id returns the value, as a string, of the first of
\* session_id, id, request_id, connection_id that is present and usable;
\* when none is, it returns an identifier no earlier call returned.
C28_FirstUsableAttribute ==
    last.op = "_extract_session_id" =>
        LET c == last.context
            U == {i \in 1..Len(SessionIdAttrs) : Usable(c, SessionIdAttrs[i])}
        IN  IF U # {}
            THEN LET first == CHOOSE i \in U : \A j \in U : i <= j
                 IN  /\ last.result = Str(c[SessionIdAttrs[first]])
                     /\ ~last.fresh
            ELSE /\ last.fresh
                 /\ last.result \notin last.earlier
                 /\ last.result \notin ProbeValues

\* an empty session_id and a zero id are skipped, request_id 7 is returned
C28_Witness ==
    /\ last.op = "_extract_session_id"
    /\ last.context.session_id = ""
    /\ last.context.id = IntZero
    /\ last.context.request_id = IntSeven
    /\ last.result = "7"
    /\ last.earlier # {}

\* C29: get_session_tool_history and is_attacker_detected change no history
\* and no flag and create no record, and for a session id never seen they
\* return the empty sequence and false.
C29_ReadsAreTotalAndPure ==
    [][(nCalls' # nCalls /\ last'.op \in {"get_session_tool_history",
                                          "is_attacker_detected"}) =>
        /\ hist' = hist
        /\ detected' = detected
        /\ (last'.op = "get_session_tool_history"
            /\ last'.session_id \notin DOMAIN hist) => last'.result = <<>>
        /\ (last'.op = "is_attacker_detected"
            /\ last'.session_id \notin DOMAIN detected) => last'.result = FALSE]_vars

\* the history of an unseen session was read while another session has one
C29_Witness ==
    /\ last.op = "get_session_tool_history"
    /\ last.session_id \notin DOMAIN hist
    /\ last.result = <<>>
    /\ DOMAIN hist # {}

\* C30: record_tool_call(s, t) changes only the history of s, and
\* mark_attacker_detected(s) changes only the flag of s.
C30_SessionsAreIsolated ==
    [][/\ (nCalls' # nCalls /\ last'.op = "record_tool_call") =>
            /\ detected' = detected
            /\ \A s \in Sessions \ {last'.session_id} :
                /\ s \in DOMAIN hist' <=> s \in DOMAIN hist
                /\ GetSessionToolHistory(hist', s) = GetSessionToolHistory(hist, s)
       /\ (nCalls' # nCalls /\ last'.op = "mark_attacker_detected") =>
            /\ hist' = hist
            /\ \A s \in Sessions \ {last'.session_id} :
                /\ s \in DOMAIN detected' <=> s \in DOMAIN detected
                /\ IsAttackerDetected(detected', s) = IsAttackerDetected(detected, s)]_vars

\* a call was recorded on s1 while s2 has a history and a flag
C30_Witness ==
    /\ last.op = "record_tool_call"
    /\ last.session_id = "s1"
    /\ GetSessionToolHistory(hist, "s2") # <<>>
    /\ IsAttackerDetected(detected, "s2")

\* the suspended calls recorded under session key s
InFlightOf(s) == {task \in inflight : InterceptorSessionId(task.context) = s}

\* C26: with calls suspended in the interceptor while others enter it, the
\* history of every session is exactly the calls recorded for it, none lost
\* when two first calls of a new session overlap, and a read of the history
\* made meanwhile returns exactly that sequence.
C26_RecordIsAtomic ==
    /\ \A s \in Sessions :
        /\ Len(GetSessionToolHistory(hist, s)) = Len(sent[s])
        /\ GetSessionToolHistory(hist, s) = sent[s]
    /\ (last.op = "get_session_tool_history" /\ inflight # {}) =>
            last.result = sent[last.session_id]

\* the first two calls of s1 are both suspended and its history is read
C26_Witness ==
    /\ Cardinality(InFlightOf("s1")) = 2
    /\ Len(sent["s1"]) = 2
    /\ last.op = "get_session_tool_history"
    /\ last.session_id = "s1"
    /\ Len(last.result) = 2

\* the decoys named by the fingerprints of session s in the sink, in sink order
SinkOf(s) ==
    LET OfS(e) == e.session_id = s
        es == SelectSeq(events, OfS)
    IN  [i \in 1..Len(es) |-> es[i].ghost_tool_called]

\* the decoy triggers of session s, in the order they were recorded
TriggersOf(s) ==
    LET IsDecoy(name) == name \in wrap.ghost_tool_names
    IN  SelectSeq(sent[s], IsDecoy)

GivenFlight(n) == {c \in Callers : cache.pc[c].at = "done" /\ cache.pc[c].flight = n}

\* C21: at most one synthesis is in progress per cache key; a caller that
\* arrives while one is in progress starts no second one, and all callers
\* of one synthesis get its value, or all get its failure.
C21_SingleFlight ==
    /\ \A k \in Keys : Cardinality({f \in cache.flights : f.key = k}) <= 1
    /\ (last.op = "get_or_generate" /\ last.inflightBefore # {}) =>
            last.served # "synth"
    /\ \A c \in Callers, d \in Callers :
        (cache.pc[c].flight # 0 /\ c \in GivenFlight(cache.pc[c].flight)
            /\ d \in GivenFlight(cache.pc[c].flight)) =>
            /\ cache.pc[c].failed = cache.pc[d].failed
            /\ ~cache.pc[c].failed =>
                /\ cache.pc[c].result = cache.pc[d].result
                /\ cache.pc[c].result =
                       Return(SynthValue(cache.pc[c].key, cache.pc[c].flight))

\* two callers were given the value of the same, single synthesis
C21_Witness ==
    /\ cache.synth = 1
    /\ GivenFlight(1) = Callers
    /\ \A c \in Callers : cache.pc[c].result = Return(SynthValue("k1", 1))

\* C22: get_or_generate serves from the cache exactly when the key has an
\* entry younger than ttl, with that entry's value, and otherwise goes to
\* the synthesizer (starting a synthesis unless one is in progress); with
\* ttl = 0 nothing is served from the cache.
C22_ServedFromCacheIffFresh ==
    last.op = "get_or_generate" =>
        LET fresh == last.entry # NoEntry /\ last.at - last.entry.created < last.ttl
        IN  /\ (last.served = "cache") <=> fresh
            /\ fresh => last.result = Return(last.entry.value)
            /\ (~fresh /\ last.inflightBefore = {}) => last.served = "synth"
            /\ last.ttl = 0 => last.served # "cache"

\* an entry one second old was served under ttl 2 after one synthesis
C22_Witness ==
    /\ last.op = "get_or_generate"
    /\ last.served = "cache"
    /\ last.at - last.entry.created = 1
    /\ last.ttl = 2
    /\ cache.synth = 1

\* C23: a caller whose synthesis failed gets exactly the static catalog when
\* its fallback_to_static is enabled and the SynthesisFailure error when it
\* is disabled.
C23_FallbackToStatic ==
    \A c \in Callers :
        (cache.pc[c].at = "done" /\ cache.pc[c].failed) =>
            IF cache.pc[c].fb
            THEN /\ cache.pc[c].result.kind = "return"
                 /\ cache.pc[c].result.val = <<"static", DefaultGhostTools>>
            ELSE cache.pc[c].result = Raise("SynthesisFailure")

\* one failed synthesis gave the static catalog to one caller and the error
\* to the other
C23_Witness ==
    /\ cache.pc["c1"].failed /\ cache.pc["c1"].fb
    /\ cache.pc["c1"].result = Return(StaticValue)
    /\ cache.pc["c2"].failed /\ ~cache.pc["c2"].fb
    /\ cache.pc["c1"].flight = cache.pc["c2"].flight

\* C31: the direct-call fallback invokes the real tool function at most
\* once per intercepted call, also when its first invocation raised.
C31_ToolInvokedAtMostOnce ==
    (LegitCall /\ ~wrap.original_call_tool) => Len(last.invoked) <= 1

\* C32: honeypot() given a list with a name that is not in the catalog
\* raises ValueError, and then no ghost tool is registered on the server and
\* the dispatch entry point is not replaced, wherever the name stands.
C32_UnknownNameLeavesServerUnchanged ==
    (last.op = "honeypot" /\ last.ghost_tools.given
        /\ Names(last.ghost_tools.list) \ GhostToolCatalog # {}) =>
        /\ last.outcome = Raise("ValueError")
        /\ server.tools = server.real
        /\ wrap.patched = "none"

\* the search order the docstring of load gives for an explicit path: that
\* path, then ./config.yaml, then ~/.honeymcp/config.yaml
DocumentedOrder(path) ==
    (IF path \notin {None, ""} THEN <<ExpandUser(PathOf(path))>> ELSE <<>>)
        \o <<<<"config.yaml">>, HomeConfig>>

\* C33: generate_response sends its request with a timeout, and a timeout of
\* the backend reaches the caller as a failure kind that differs from the
\* kind of an authentication or quota failure and of a malformed response.
C33_TimeoutBoundedAndClassified ==
    (last.op = "generate_response" /\ last.sent) =>
        /\ "timeout" \in KwargKeys(last.request.kwargs)
        /\ last.boundary = Raise("Timeout") =>
            last.outcome.val[2] \notin
                {Reraise(Raise("AuthenticationError")).val[2],
                 Reraise(Raise("RateLimitError")).val[2],
                 Reraise(Raise("IndexError")).val[2]}

\* C34: load returns the configuration of the first existing location among
\* the explicit path (if provided), ./config.yaml and ~/.honeymcp/config.yaml,
\* and the default configuration only when none of them exists.
C34_LoadFollowsDocumentedOrder ==
    last.op = "load" =>
        LET order == DocumentedOrder(last.path)
            found == {i \in 1..Len(order) : order[i] \in last.exists}
        IN  last.outcome =
                Return(IF found = {} THEN DefaultConfig
                       ELSE FromYaml(order[CHOOSE i \in found : \A j \in found : i <= j]))

====
